---- MODULE Spec2Model ----
(***************************************************************************)
(* State-machine model of the QuantumEncryptx360 front end: the request    *)
(* layer (api.js: postFormJson and its four callers), the App component's  *)
(* three pipelines (session, encrypt, decrypt) with their handlers         *)
(* handleGenerateKey / handleEncrypt / handleDecryptPreview, the           *)
(* Decryptor's handleDownload, and the controls that start them.           *)
(*                                                                         *)
(* Every async handler is split at its awaits: a Start step (the           *)
(* synchronous prefix up to `await sleep`), an Issue step (the fetch is    *)
(* sent once the sleep is over) and a Complete step (the response or the   *)
(* transport failure is handled, including catch and finally).             *)
(***************************************************************************)
EXTENDS Integers, Sequences, FiniteSets, Bags, TLC

VARIABLES
    currentUser,        \* App state: useState('Alice')
    peerUser,           \* App state: useState('Bob')
    isLoading,          \* App state: shared loading flag
    processStatus,      \* App state: [session, encrypt, decrypt] -> status record
    cryptoComponents,   \* App state: the value last handed to setCryptoComponents
    decryptedPreview,   \* App state: preview text
    tasks,              \* handler invocations that are suspended at an await
    download,           \* the download request the last step sent, if it sent one
    VITE_API_URL,       \* config.js: the root the build was configured with
    API_URL             \* config.js: the root exported to the request layer

\* the state of App and of its suspended handlers
appVars == <<currentUser, peerUser, isLoading, processStatus, cryptoComponents,
             decryptedPreview, tasks, download>>

\* the values config.js computes when the module is loaded
configVars == <<VITE_API_URL, API_URL>>

vars == <<appVars, configVars>>

----------------------------------------------------------------------------
(* Bounds of the model *)

\* how many handler invocations may be suspended at the same time
MaxTasks == 2

\* how long a configured root may be, in pieces of text
MaxUrlLen == 4

----------------------------------------------------------------------------
(* JavaScript values *)

\* the JavaScript value `undefined` when it stands where a string could stand
UNDEFINED == "<undefined>"

\* a JavaScript value as far as the handlers look at it: its type, its text
\* when it is a string, and the five properties the code reads from objects
JsValue(type, str, detail, plaintext, nonce, tag, ciphertext) ==
    [type |-> type, str |-> str, detail |-> detail, plaintext |-> plaintext,
     nonce |-> nonce, tag |-> tag, ciphertext |-> ciphertext]

JsUndefined ==
    JsValue("undefined", UNDEFINED, UNDEFINED, UNDEFINED, UNDEFINED, UNDEFINED, UNDEFINED)

\* a string value: every property read on it yields undefined
JsString(s) ==
    JsValue("string", s, UNDEFINED, UNDEFINED, UNDEFINED, UNDEFINED, UNDEFINED)

JsObject(detail, plaintext, nonce, tag, ciphertext) ==
    JsValue("object", UNDEFINED, detail, plaintext, nonce, tag, ciphertext)

\* JavaScript truthiness of a string-or-undefined
Truthy(s) == s # UNDEFINED /\ s # ""

\* JavaScript truthiness of a value: objects are truthy, strings when non-empty
TruthyValue(v) ==
    \/ v.type = "object"
    \/ v.type = "string" /\ v.str # ""

\* a || b on strings-or-undefined
OrElse(a, b) == IF Truthy(a) THEN a ELSE b

----------------------------------------------------------------------------
(* The backend's answers *)

\* response bodies the model lets the backend send
DetailBody == "{\"detail\":\"Eve detected\"}"
PlainTextBody == "Internal Server Error"
CryptoBody == "{\"nonce\":\"n1\",\"tag\":\"t1\",\"ciphertext\":\"c1\"}"
PlaintextBody == "{\"plaintext\":\"hello\"}"

\* the body of a 2xx answer: empty, a text that is no JSON, or the endpoint's
\* own success shape
OkBodies(kind) ==
    {"", PlainTextBody} \cup
    (IF kind = "encrypt" THEN {CryptoBody}
     ELSE IF kind = "decrypt" THEN {PlaintextBody}
     ELSE {})

\* the body of a non-2xx answer: empty, a JSON error, or a text that is no JSON
ErrorBodies == {"", DetailBody, PlainTextBody}

OkStatuses == {200}
ErrorStatuses == {403, 500}

\* what `await fetch(...)` settles to: a rejection (no response at all) or a
\* response with a status and a body text
FetchRejected == [rejected |-> TRUE, status |-> 0, text |-> ""]

FetchOutcomes(kind) ==
    {FetchRejected}
    \cup { [rejected |-> FALSE, status |-> st, text |-> t] :
             st \in OkStatuses, t \in OkBodies(kind) }
    \cup { [rejected |-> FALSE, status |-> st, text |-> t] :
             st \in ErrorStatuses, t \in ErrorBodies }

\* the outcomes of the three requests postFormJson sends
SessionOutcomes == FetchOutcomes("session")
EncryptOutcomes == FetchOutcomes("encrypt")
DecryptOutcomes == FetchOutcomes("decrypt")

\* Response.ok
ResOk(status) == status >= 200 /\ status <= 299

\* JSON.parse on the body texts above: ok = FALSE stands for the SyntaxError
JsonParse(text) ==
    CASE text = DetailBody ->
            [ok |-> TRUE,
             value |-> JsObject("Eve detected", UNDEFINED, UNDEFINED, UNDEFINED, UNDEFINED)]
      [] text = CryptoBody ->
            [ok |-> TRUE,
             value |-> JsObject(UNDEFINED, UNDEFINED, "n1", "t1", "c1")]
      [] text = PlaintextBody ->
            [ok |-> TRUE,
             value |-> JsObject(UNDEFINED, "hello", UNDEFINED, UNDEFINED, UNDEFINED)]
      [] OTHER ->
            [ok |-> FALSE, value |-> JsUndefined]

----------------------------------------------------------------------------
(* Request layer: api.js *)

\* a thrown value, as far as the catch blocks probe it: .status, .body, .text
\* and .message (each possibly undefined)
Thrown(hasStatus, status, body, text, message) ==
    [hasStatus |-> hasStatus, status |-> status, body |-> body,
     text |-> text, message |-> message]

NoThrown == Thrown(FALSE, 0, JsUndefined, UNDEFINED, UNDEFINED)

\* the TypeError a rejected fetch throws
FetchTypeError == Thrown(FALSE, 0, JsUndefined, UNDEFINED, "Failed to fetch")

\* the SyntaxError JSON.parse throws
JsonSyntaxError == Thrown(FALSE, 0, JsUndefined, UNDEFINED, "Unexpected token")

Returned(v) == [threw |-> FALSE, value |-> v, err |-> NoThrown]
Threw(e) == [threw |-> TRUE, value |-> JsUndefined, err |-> e]

\* the try block of postFormJson
PostFormJsonTry(res) ==
    LET parsed == IF res.text # ""
                  THEN JsonParse(res.text)
                  ELSE [ok |-> TRUE,
                        value |-> JsObject(UNDEFINED, UNDEFINED, UNDEFINED, UNDEFINED, UNDEFINED)]
    IN  IF ~parsed.ok THEN Threw(JsonSyntaxError)
        ELSE IF ~ResOk(res.status)
             THEN Threw(Thrown(TRUE, res.status, parsed.value, res.text, UNDEFINED))
             ELSE Returned(parsed.value)

\* the catch block of postFormJson: it catches whatever the try block threw,
\* the try block's own { status, body, text } included
PostFormJsonCatch(res, err) ==
    IF ~ResOk(res.status)
    THEN Threw(Thrown(TRUE, res.status, JsUndefined, res.text, UNDEFINED))
    ELSE Returned(JsString(res.text))

\* postFormJson as a whole, from what the fetch settles to
PostFormJson(outcome) ==
    IF outcome.rejected THEN Threw(FetchTypeError)
    ELSE LET t == PostFormJsonTry(outcome)
         IN  IF t.threw THEN PostFormJsonCatch(outcome, t.err) ELSE t

----------------------------------------------------------------------------
(* App component: state *)

\* the options of the two identity selectors
USERS == <<"Alice", "Bob", "Charlie", "David">>

\* the options the model's selectors offer: the code only ever compares two
\* identities for equality, so two names give every case
Users == {USERS[1], USERS[2]}

\* a pipeline's status record { status, type, message }
Status(status, message) == [status |-> status, type |-> status, message |-> message]

INITIAL_PROCESS_STATUS ==
    [session |-> Status("idle", "Waiting for key generation..."),
     encrypt |-> Status("idle", "Waiting for file..."),
     decrypt |-> Status("idle", "Waiting for components...")]

\* useState({ nonce: '', tag: '', ciphertext: '' })
InitialCryptoComponents == JsObject(UNDEFINED, UNDEFINED, "", "", "")

\* faulty variant of ResetStatus: the tests on currentProcess are missing, so every
\* start keeps the success markers
ResetStatus_KeepsAlways(currentProcess, prev) ==
    LET next1 == IF prev.session.status = "success"
                 THEN [INITIAL_PROCESS_STATUS EXCEPT
                           !.session = Status("success", "Session active")]
                 ELSE INITIAL_PROCESS_STATUS
    IN  IF prev.encrypt.status = "success"
        THEN [next1 EXCEPT !.encrypt = Status("success", "Encryption complete")]
        ELSE next1

\* faulty variant of ResetStatus: the session marker is kept under the condition
\* written for the encrypt marker, so starting an encryption drops it
ResetStatus_DropsSession(currentProcess, prev) ==
    LET keep == currentProcess # "session" /\ currentProcess # "encrypt"
        next1 == IF keep /\ prev.session.status = "success"
                 THEN [INITIAL_PROCESS_STATUS EXCEPT
                           !.session = Status("success", "Session active")]
                 ELSE INITIAL_PROCESS_STATUS
    IN  IF keep /\ prev.encrypt.status = "success"
        THEN [next1 EXCEPT !.encrypt = Status("success", "Encryption complete")]
        ELSE next1

\* the updater resetStatus hands to setProcessStatus
ResetStatus(currentProcess, prev) ==
    LET keepSession == currentProcess # "session" /\ prev.session.status = "success"
        keepEncrypt == /\ currentProcess # "session"
                       /\ currentProcess # "encrypt"
                       /\ prev.encrypt.status = "success"
        next1 == IF keepSession
                 THEN [INITIAL_PROCESS_STATUS EXCEPT
                           !.session = Status("success", "Session active")]
                 ELSE INITIAL_PROCESS_STATUS
        next2 == IF keepEncrypt
                 THEN [next1 EXCEPT !.encrypt = Status("success", "Encryption complete")]
                 ELSE next1
    IN  IF currentProcess = "session" THEN INITIAL_PROCESS_STATUS ELSE next2

----------------------------------------------------------------------------
(* Suspended handler invocations and the requests they send *)

NullFile == "null"
Files == {"report.txt"}

\* what the Decryptor's three text inputs may hold when a button is pressed
ComponentInputs ==
    { [nonce |-> "n1", tag |-> "t1", ciphertext |-> "c1"],
      [nonce |-> "n1", tag |-> "",   ciphertext |-> "c1"] }

NoComponents == [nonce |-> "", tag |-> "", ciphertext |-> ""]

\* an invocation of a handler: which one, where it is suspended ("sleep":
\* at `await sleep`, "fetch": the request is sent and not yet answered) and
\* the values its closure and arguments hold
Task(kind, pc, user, peer, file, comps) ==
    [kind |-> kind, pc |-> pc, user_id |-> user, peer_id |-> peer, file |-> file,
     nonce |-> comps.nonce, tag |-> comps.tag, ciphertext |-> comps.ciphertext]

\* an invocation whose request is sent: what is left of the handler (the rest
\* of try, catch, finally) reads the answer only, none of the captured values
Awaiting(kind) == Task(kind, "fetch", "", "", NullFile, NoComponents)

\* the form a request carries
Request(kind, user, peer, file, nonce, tag, ciphertext) ==
    [kind |-> kind, user_id |-> user, peer_id |-> peer, file |-> file,
     nonce |-> nonce, tag |-> tag, ciphertext |-> ciphertext]

NoRequest == Request("none", "", "", NullFile, "", "", "")

\* faulty variant of RequestOf: the tag field is filled with the nonce
RequestOf_TagFromNonce(t) ==
    Request(t.kind, t.user_id, t.peer_id, t.file, t.nonce, t.nonce, t.ciphertext)

\* the form the api.js callers build from a suspended invocation's values
RequestOf(t) ==
    Request(t.kind, t.user_id, t.peer_id, t.file, t.nonce, t.tag, t.ciphertext)

Suspended == BagToSet(tasks)

\* the invocations of one handler that are started and not yet completed
InFlight(kind) == { t \in Suspended : t.kind = kind }

\* the model keeps at most MaxTasks invocations suspended
RoomForTask == BagCardinality(tasks) < MaxTasks

Add(t) == tasks (+) SetToBag({t})
Remove(t) == tasks (-) SetToBag({t})

----------------------------------------------------------------------------
(* Initial state: App's useState initial values, nothing suspended *)

(* config.js: the root every endpoint path is built on. A root is a sequence
   of pieces of text: a slash, the segment api/v1 in some letter case, or
   text that holds neither *)

Slash == "/"
ApiSegments == {"api/v1", "API/V1"}
OtherText == "host"
Pieces == {Slash, OtherText} \cup ApiSegments

\* "http://localhost:8000"
DefaultRoot == <<"http:", Slash, Slash, "localhost:8000">>

\* the roots a build may be configured with; the empty one stands for an
\* unset or empty VITE_API_URL
Roots == UNION { [1..n -> Pieces] : n \in 0..MaxUrlLen }

\* import.meta.env.VITE_API_URL || "http://localhost:8000"
Raw(env) == IF env = <<>> THEN DefaultRoot ELSE env

\* raw.replace(/\/+$/, "")
RECURSIVE StripTrailingSlashes(_)
StripTrailingSlashes(s) ==
    IF s # <<>> /\ s[Len(s)] = Slash
    THEN StripTrailingSlashes(SubSeq(s, 1, Len(s) - 1))
    ELSE s

\* normalized.replace(/\/api\/v1$/i, "")
StripApiPrefix(s) ==
    IF Len(s) >= 2 /\ s[Len(s)] \in ApiSegments /\ s[Len(s) - 1] = Slash
    THEN SubSeq(s, 1, Len(s) - 2)
    ELSE s

\* the two replacements config.js applies to raw, one after the other
Normalized(raw) == StripApiPrefix(StripTrailingSlashes(raw))

\* config.js as a whole: from the configured value to the exported API_URL
Normalize(env) == Normalized(Raw(env))

----------------------------------------------------------------------------
(* Initial state *)

Init ==
    /\ currentUser = "Alice"
    /\ peerUser = "Bob"
    /\ isLoading = FALSE
    /\ processStatus = INITIAL_PROCESS_STATUS
    /\ cryptoComponents = InitialCryptoComponents
    /\ decryptedPreview = ""
    /\ tasks = EmptyBag
    /\ download = NoRequest
    /\ VITE_API_URL = <<>>
    /\ API_URL = Normalize(VITE_API_URL)

----------------------------------------------------------------------------
(* Controls: which buttons the rendered state lets the pointer press *)

isSessionReady == processStatus.session.status = "success"
isEncryptReady == processStatus.encrypt.status = "success"

\* AnimatedCard: a card with isDisabled gets the class pointer-events-none
CardEnabled(isDisabled) == ~isDisabled

\* Button: <button disabled={disabled || isLoading}>
ButtonEnabled(disabled, loadingProp) == ~(disabled \/ loadingProp)

\* SessionManager's Generate button; its card is never disabled
CanGenerate ==
    ButtonEnabled(FALSE, isLoading /\ processStatus.session.status = "loading")

\* Encryptor's Encrypt button, for the file held in selectedFile
CanEncrypt(selectedFile) ==
    /\ CardEnabled(~isSessionReady)
    /\ ButtonEnabled(selectedFile = NullFile \/ isLoading,
                     isLoading /\ processStatus.encrypt.status = "loading")

\* Decryptor's Preview button
CanPreview ==
    /\ CardEnabled(~isEncryptReady)
    /\ ButtonEnabled(isLoading, isLoading /\ processStatus.decrypt.status = "loading")

\* Decryptor's Download button
CanDownload ==
    /\ CardEnabled(~isEncryptReady)
    /\ ButtonEnabled(isLoading, FALSE)

----------------------------------------------------------------------------
(* Identity selectors *)

SetCurrentUser(u) ==
    /\ currentUser' = u
    /\ download' = NoRequest
    /\ UNCHANGED configVars
    /\ UNCHANGED <<peerUser, isLoading, processStatus, cryptoComponents,
                   decryptedPreview, tasks>>

SetPeerUser(u) ==
    /\ peerUser' = u
    /\ download' = NoRequest
    /\ UNCHANGED configVars
    /\ UNCHANGED <<currentUser, isLoading, processStatus, cryptoComponents,
                   decryptedPreview, tasks>>

----------------------------------------------------------------------------
(* Session pipeline: handleGenerateKey *)

SameUserStatus ==
    [INITIAL_PROCESS_STATUS EXCEPT
        !.session = Status("error", "User and Peer cannot be the same.")]

\* faulty variant of SameUser: the validation is skipped
SameUser_Skipped(user, peer) == FALSE

\* the local validation at the head of handleGenerateKey
SameUser(user, peer) == user = peer

\* faulty variant of StartStatus: the handler's own pipeline is not set to
\* loading before the sleep
StartStatus_NoLoading(currentProcess, prev, message) ==
    ResetStatus(currentProcess, prev)

\* the status the synchronous prefix of a handler leaves: resetStatus, then
\* the handler's own pipeline set to loading
StartStatus(currentProcess, prev, message) ==
    [ResetStatus(currentProcess, prev) EXCEPT
        ![currentProcess] = Status("loading", message)]

\* the synchronous prefix of handleGenerateKey, up to `await sleep(1500)`
HandleGenerateKey ==
    /\ CanGenerate
    /\ IF SameUser(currentUser, peerUser)
       THEN /\ processStatus' = SameUserStatus
            /\ decryptedPreview' = ""
            /\ UNCHANGED <<isLoading, tasks>>
       ELSE /\ RoomForTask
            /\ isLoading' = TRUE
            /\ decryptedPreview' = ""
            /\ processStatus' =
                 StartStatus("session", processStatus,
                             "Establishing secure session... (QKD running)")
            /\ tasks' = Add(Task("session", "sleep", currentUser, peerUser,
                                 NullFile, NoComponents))
    /\ download' = NoRequest
    /\ UNCHANGED configVars
    /\ UNCHANGED <<currentUser, peerUser, cryptoComponents>>

\* the sleep of a suspended invocation is over: its api.js caller sends the
\* request (initiateSession, encryptFile or decryptFilePreview)
Issue(t) ==
    /\ t \in Suspended
    /\ t.pc = "sleep"
    /\ tasks' = Remove(t) (+) SetToBag({Awaiting(t.kind)})
    /\ download' = NoRequest
    /\ UNCHANGED configVars
    /\ UNCHANGED <<currentUser, peerUser, isLoading, processStatus,
                   cryptoComponents, decryptedPreview>>

\* faulty variant of SessionFailure: any answer that carries a status counts as an
\* attack
SessionFailure_AnyStatus(err) ==
    IF err.hasStatus
    THEN Status("eavesdropper", "Attack detected. Session terminated.")
    ELSE Status("error", OrElse(err.message, "Key establishment failed."))

\* the catch block of handleGenerateKey: the session status it writes
SessionFailure(err) ==
    IF err.hasStatus /\ err.status = 403
    THEN Status("eavesdropper",
                IF TruthyValue(err.body)
                THEN OrElse(err.body.detail, "Attack detected. Session terminated.")
                ELSE "Attack detected. Session terminated.")
    ELSE Status("error",
                IF TruthyValue(err.body) /\ Truthy(err.body.detail) THEN err.body.detail
                ELSE IF Truthy(err.text) THEN err.text
                ELSE IF Truthy(err.message) THEN err.message
                ELSE "Key establishment failed.")

\* the request settles: try / catch / finally of handleGenerateKey
SessionComplete(t, outcome) ==
    /\ t \in Suspended
    /\ t.kind = "session"
    /\ t.pc = "fetch"
    /\ tasks' = Remove(t)
    /\ LET r == PostFormJson(outcome)
       IN  IF ~r.threw
           THEN /\ processStatus' =
                     [INITIAL_PROCESS_STATUS EXCEPT
                         !.session = Status("success", "Secure session established!")]
                /\ UNCHANGED decryptedPreview
           ELSE /\ processStatus' =
                     [INITIAL_PROCESS_STATUS EXCEPT !.session = SessionFailure(r.err)]
                /\ decryptedPreview' = ""
    /\ isLoading' = FALSE
    /\ download' = NoRequest
    /\ UNCHANGED configVars
    /\ UNCHANGED <<currentUser, peerUser, cryptoComponents>>

----------------------------------------------------------------------------
(* Encrypt pipeline: handleEncrypt *)

\* the synchronous prefix of handleEncrypt, up to `await sleep(1000)`
HandleEncrypt(file) ==
    /\ CanEncrypt(file)
    /\ RoomForTask
    /\ isLoading' = TRUE
    /\ decryptedPreview' = ""
    /\ processStatus' = StartStatus("encrypt", processStatus, "Encrypting file...")
    /\ cryptoComponents' = InitialCryptoComponents
    /\ tasks' = Add(Task("encrypt", "sleep", currentUser, peerUser, file, NoComponents))
    /\ download' = NoRequest
    /\ UNCHANGED configVars
    /\ UNCHANGED <<currentUser, peerUser>>

\* faulty variant of FailureMessage: the handler's fallback text is not used
FailureMessage_NoFallback(err, fallback) ==
    IF TruthyValue(err.body) /\ Truthy(err.body.detail) THEN err.body.detail
    ELSE IF Truthy(err.text) THEN err.text
    ELSE err.message

\* the message the catch blocks of handleEncrypt and handleDecryptPreview
\* derive from what was thrown, given the handler's fallback text
FailureMessage(err, fallback) ==
    IF TruthyValue(err.body) /\ Truthy(err.body.detail) THEN err.body.detail
    ELSE IF Truthy(err.text) THEN err.text
    ELSE IF Truthy(err.message) THEN OrElse(err.message, fallback)
    ELSE fallback

\* faulty variant of EncryptFailure: the session handler's catch block copied over
EncryptFailure_AsSession(err) ==
    IF err.hasStatus /\ err.status = 403
    THEN Status("eavesdropper", "Attack detected. Session terminated.")
    ELSE Status("error", FailureMessage(err, "Encryption failed."))

\* the encrypt status the catch block of handleEncrypt writes
EncryptFailure(err) == Status("error", FailureMessage(err, "Encryption failed."))

\* faulty variant of EncryptComplete: an answer that arrives while another
\* operation is in flight is discarded
EncryptComplete_Cancelled(t, outcome) ==
    /\ t \in Suspended
    /\ t.kind = "encrypt"
    /\ t.pc = "fetch"
    /\ tasks' = Remove(t)
    /\ download' = NoRequest
    /\ IF Remove(t) # EmptyBag
       THEN UNCHANGED <<isLoading, processStatus, cryptoComponents>>
       ELSE /\ isLoading' = FALSE
            /\ LET r == PostFormJson(outcome)
               IN  IF ~r.threw
                   THEN /\ cryptoComponents' = r.value
                        /\ processStatus' =
                             [processStatus EXCEPT
                                 !.encrypt = Status("success",
                                                    "File encrypted. Components ready.")]
                   ELSE /\ processStatus' =
                             [processStatus EXCEPT !.encrypt = EncryptFailure(r.err)]
                        /\ UNCHANGED cryptoComponents
    /\ UNCHANGED configVars
    /\ UNCHANGED <<currentUser, peerUser, decryptedPreview>>

\* the request settles: try / catch / finally of handleEncrypt
EncryptComplete(t, outcome) ==
    /\ t \in Suspended
    /\ t.kind = "encrypt"
    /\ t.pc = "fetch"
    /\ tasks' = Remove(t)
    /\ LET r == PostFormJson(outcome)
       IN  IF ~r.threw
           THEN /\ cryptoComponents' = r.value
                /\ processStatus' =
                     [processStatus EXCEPT
                         !.encrypt = Status("success", "File encrypted. Components ready.")]
           ELSE /\ processStatus' =
                     [processStatus EXCEPT !.encrypt = EncryptFailure(r.err)]
                /\ UNCHANGED cryptoComponents
    /\ isLoading' = FALSE
    /\ download' = NoRequest
    /\ UNCHANGED configVars
    /\ UNCHANGED <<currentUser, peerUser, decryptedPreview>>

----------------------------------------------------------------------------
(* Decrypt pipeline: handleDecryptPreview and the Decryptor's handleDownload *)

\* the synchronous prefix of handleDecryptPreview, up to `await sleep(1000)`
HandleDecryptPreview(components) ==
    /\ CanPreview
    /\ RoomForTask
    /\ isLoading' = TRUE
    /\ decryptedPreview' = ""
    /\ processStatus' = StartStatus("decrypt", processStatus, "Decrypting preview...")
    /\ tasks' = Add(Task("decrypt", "sleep", currentUser, peerUser, NullFile, components))
    /\ download' = NoRequest
    /\ UNCHANGED configVars
    /\ UNCHANGED <<currentUser, peerUser, cryptoComponents>>

\* the decrypt status the catch block of handleDecryptPreview writes
DecryptFailure(err) == Status("error", FailureMessage(err, "Decryption failed."))

\* `Error: ${detailMessage}`
ErrorPreview(detailMessage) == "Error: " \o detailMessage

\* faulty variant of DecryptComplete: a failed request is swallowed, nothing
\* is written
DecryptComplete_SilentFailure(t, outcome) ==
    /\ t \in Suspended
    /\ t.kind = "decrypt"
    /\ t.pc = "fetch"
    /\ tasks' = Remove(t)
    /\ download' = NoRequest
    /\ LET r == PostFormJson(outcome)
       IN  IF ~r.threw
           THEN /\ decryptedPreview' = OrElse(r.value.plaintext, "")
                /\ processStatus' =
                     [processStatus EXCEPT
                         !.decrypt = Status("success", "Decryption preview successful.")]
                /\ isLoading' = FALSE
           ELSE UNCHANGED <<decryptedPreview, processStatus, isLoading>>
    /\ UNCHANGED configVars
    /\ UNCHANGED <<currentUser, peerUser, cryptoComponents>>

\* the request settles: try / catch / finally of handleDecryptPreview
DecryptComplete(t, outcome) ==
    /\ t \in Suspended
    /\ t.kind = "decrypt"
    /\ t.pc = "fetch"
    /\ tasks' = Remove(t)
    /\ LET r == PostFormJson(outcome)
       IN  IF ~r.threw
           THEN /\ decryptedPreview' = OrElse(r.value.plaintext, "")
                /\ processStatus' =
                     [processStatus EXCEPT
                         !.decrypt = Status("success", "Decryption preview successful.")]
           ELSE /\ processStatus' =
                     [processStatus EXCEPT !.decrypt = DecryptFailure(r.err)]
                /\ decryptedPreview' = ErrorPreview(DecryptFailure(r.err).message)
    /\ isLoading' = FALSE
    /\ download' = NoRequest
    /\ UNCHANGED configVars
    /\ UNCHANGED <<currentUser, peerUser, cryptoComponents>>

\* handleDownload: the form is built and the request sent at once. When the
\* request settles the file is saved or an alert shows the error: nothing of
\* App's state is read or written then, so the handler ends here for the model
HandleDownload(components) ==
    /\ CanDownload
    /\ download' = Request("download", currentUser, peerUser, NullFile,
                           components.nonce, components.tag, components.ciphertext)
    /\ UNCHANGED configVars
    /\ UNCHANGED <<currentUser, peerUser, isLoading, processStatus,
                   cryptoComponents, decryptedPreview, tasks>>

----------------------------------------------------------------------------
(* The system *)

Next ==
    \/ \E u \in Users : SetCurrentUser(u)
    \/ \E u \in Users : SetPeerUser(u)
    \/ HandleGenerateKey
    \/ \E t \in Suspended : Issue(t)
    \/ \E t \in InFlight("session"), o \in SessionOutcomes :
          SessionComplete(t, o)
    \/ \E f \in Files \cup {NullFile} : HandleEncrypt(f)
    \/ \E t \in InFlight("encrypt"), o \in EncryptOutcomes :
          EncryptComplete(t, o)
    \/ \E c \in ComponentInputs : HandleDecryptPreview(c)
    \/ \E t \in InFlight("decrypt"), o \in DecryptOutcomes :
          DecryptComplete(t, o)
    \/ \E c \in ComponentInputs : HandleDownload(c)

Spec == Init /\ [][Next]_vars

\* the steps that do not wait for the user: a sleep that is over, and a
\* request that resolves or fails
TimerFires == \E t \in Suspended : Issue(t)

RequestSettles ==
    \/ \E t \in InFlight("session"), o \in SessionOutcomes : SessionComplete(t, o)
    \/ \E t \in InFlight("encrypt"), o \in EncryptOutcomes : EncryptComplete(t, o)
    \/ \E t \in InFlight("decrypt"), o \in DecryptOutcomes : DecryptComplete(t, o)

\* App when every timer fires and every request sent is answered or fails
SpecFair == Spec /\ WF_vars(TimerFires) /\ WF_vars(RequestSettles)

----------------------------------------------------------------------------
(* config.js on its own: builds configured with any root, and the
   normalization applied again to the root it exported *)

InitConfig ==
    /\ currentUser = "Alice"
    /\ peerUser = "Bob"
    /\ isLoading = FALSE
    /\ processStatus = INITIAL_PROCESS_STATUS
    /\ cryptoComponents = InitialCryptoComponents
    /\ decryptedPreview = ""
    /\ tasks = EmptyBag
    /\ download = NoRequest
    /\ VITE_API_URL \in Roots
    /\ API_URL = Normalize(VITE_API_URL)

\* the two replacements are applied to the root they produced
Renormalize ==
    /\ VITE_API_URL' = API_URL
    /\ API_URL' = Normalized(API_URL)
    /\ UNCHANGED appVars

NextConfig == Renormalize

SpecConfig == InitConfig /\ [][NextConfig]_vars

----------------------------------------------------------------------------
(* Visualizer: the headline derived from the `processes` prop *)

\* faulty variant of getTopMessage: the errors are looked up session first
getTopMessage_SessionFirst(processes) ==
    IF processes.session.status = "eavesdropper" THEN processes.session.message
    ELSE IF processes.session.status = "error" THEN processes.session.message
    ELSE IF processes.encrypt.status = "error" THEN processes.encrypt.message
    ELSE IF processes.decrypt.status = "error" THEN processes.decrypt.message
    ELSE IF processes.decrypt.status = "loading" THEN processes.decrypt.message
    ELSE IF processes.encrypt.status = "loading" THEN processes.encrypt.message
    ELSE IF processes.session.status = "loading" THEN processes.session.message
    ELSE IF processes.decrypt.status = "success" THEN processes.decrypt.message
    ELSE IF processes.encrypt.status = "success" THEN processes.encrypt.message
    ELSE processes.session.message

getConnectionStatus(processes) ==
    IF processes.session.status = "eavesdropper" THEN processes.session
    ELSE IF processes.decrypt.status = "error"
         THEN [status |-> "error", message |-> processes.decrypt.message]
    ELSE IF processes.encrypt.status = "error"
         THEN [status |-> "error", message |-> processes.encrypt.message]
    ELSE IF processes.session.status = "error"
         THEN [status |-> "error", message |-> processes.session.message]
    ELSE IF processes.decrypt.status = "loading" THEN processes.decrypt
    ELSE IF processes.encrypt.status = "loading" THEN processes.encrypt
    ELSE IF processes.session.status = "loading" THEN processes.session
    ELSE [status |-> "success", message |-> "Secure Tunnel Active"]

getTopMessage(processes) ==
    IF processes.session.status = "eavesdropper" THEN processes.session.message
    ELSE IF processes.decrypt.status = "error" THEN processes.decrypt.message
    ELSE IF processes.encrypt.status = "error" THEN processes.encrypt.message
    ELSE IF processes.session.status = "error" THEN processes.session.message
    ELSE IF processes.decrypt.status = "loading" THEN processes.decrypt.message
    ELSE IF processes.encrypt.status = "loading" THEN processes.encrypt.message
    ELSE IF processes.session.status = "loading" THEN processes.session.message
    ELSE IF processes.decrypt.status = "success" THEN processes.decrypt.message
    ELSE IF processes.encrypt.status = "success" THEN processes.encrypt.message
    ELSE IF processes.session.status = "success" THEN processes.session.message
    ELSE processes.session.message

\* status?.type || 'idle': the value getConnectionStatus builds for an error
\* and for the default case has no type field
TypeOf(status) ==
    OrElse(IF "type" \in DOMAIN status THEN status.type ELSE UNDEFINED, "idle")

\* message.includes('Establishing'): of the messages App writes, only the
\* session's loading message does
IncludesEstablishing(message) ==
    message = "Establishing secure session... (QKD running)"

\* ConnectionVisual: the branch it takes, named by the status text it shows
\* (the data-flow branch shows the message in upper case)
ConnectionVisual(status) ==
    LET type == TypeOf(status)
    IN  IF type = "eavesdropper" THEN "COMPROMISED CHANNEL"
        ELSE IF type = "error" THEN "ERROR"
        ELSE IF type = "loading" /\ IncludesEstablishing(status.message)
             THEN "BUILDING TUNNEL..."
        ELSE IF type = "loading" THEN "DATA FLOW"
        ELSE "SECURE TUNNEL"

\* the values the status field of a pipeline may hold (TEXT_COLORS lists them)
Statuses == {"idle", "loading", "success", "error", "eavesdropper"}

Pipelines == {"session", "encrypt", "decrypt"}

\* Visualizer on its own: the prop changes to any combination of statuses;
\* each record's message tells its pipeline and its status
SetProcesses(pipeline, status) ==
    /\ processStatus' =
          [processStatus EXCEPT
              ![pipeline] = Status(status, pipeline \o " is " \o status)]
    /\ UNCHANGED <<currentUser, peerUser, isLoading, cryptoComponents,
                   decryptedPreview, tasks, download>>
    /\ UNCHANGED configVars

NextVisualizer == \E pipeline \in Pipelines, status \in Statuses :
                     SetProcesses(pipeline, status)

SpecVisualizer == Init /\ [][NextVisualizer]_vars

----------------------------------------------------------------------------
(* Claims *)

\* C1: whenever currentUser equals peerUser, handleGenerateKey sets session
\* to error with the message "User and Peer cannot be the same.", leaves
\* encrypt and decrypt idle and the preview empty, suspends no invocation (so
\* no request can follow) and leaves isLoading as it was.
C1_SameUserFailsLocally ==
    [][ (HandleGenerateKey /\ currentUser = peerUser) =>
          /\ processStatus'.session =
               [status |-> "error", type |-> "error",
                message |-> "User and Peer cannot be the same."]
          /\ processStatus'.encrypt.status = "idle"
          /\ processStatus'.decrypt.status = "idle"
          /\ decryptedPreview' = ""
          /\ tasks' = tasks
          /\ download' = NoRequest
          /\ isLoading' = isLoading ]_vars

\* C1 witness: the validation has rejected an equal pair while another
\* operation was in flight
C1_Witness ==
    /\ currentUser = peerUser
    /\ processStatus.session.message = "User and Peer cannot be the same."
    /\ isLoading
    /\ tasks # EmptyBag

\* C2: a session request answered 403 writes the session status eavesdropper,
\* whatever the body; answered by any other non-2xx status it writes error.
C2_Only403IsEavesdropper ==
    [][ \A t \in InFlight("session"), o \in SessionOutcomes :
          (SessionComplete(t, o) /\ ~o.rejected /\ ~ResOk(o.status)) =>
             processStatus'.session.status =
                 (IF o.status = 403 THEN "eavesdropper" ELSE "error") ]_vars

\* C2 witness: a 403 answer has been handled
C2_Witness ==
    /\ processStatus.session.status = "eavesdropper"
    /\ processStatus.session.type = "eavesdropper"
    /\ ~isLoading

\* C3 (as claimed): a 403 answer with the body {"detail":"Eve detected"} makes
\* the session message exactly "Eve detected".
C3_DetailShownOn403 ==
    [][ \A t \in InFlight("session"), o \in SessionOutcomes :
          (SessionComplete(t, o) /\ ~o.rejected /\ o.status = 403
             /\ o.text = DetailBody) =>
             /\ processStatus'.session.status = "eavesdropper"
             /\ processStatus'.session.message = "Eve detected" ]_vars

\* C4 (as claimed): for a non-2xx answer (the session 403 apart) the pipeline's
\* message is the body's detail field when the body has one, otherwise the raw
\* body or the operation's fallback text.
C4_DetailIsTheMessage ==
    [][ /\ \A t \in InFlight("session"), o \in SessionOutcomes :
             (SessionComplete(t, o) /\ ~o.rejected /\ ~ResOk(o.status)
                /\ o.status # 403) =>
                processStatus'.session.message =
                    (IF JsonParse(o.text).ok /\ Truthy(JsonParse(o.text).value.detail)
                     THEN JsonParse(o.text).value.detail
                     ELSE IF o.text # "" THEN o.text
                     ELSE "Key establishment failed.")
        /\ \A t \in InFlight("encrypt"), o \in EncryptOutcomes :
             (EncryptComplete(t, o) /\ ~o.rejected /\ ~ResOk(o.status)) =>
                processStatus'.encrypt.message =
                    (IF JsonParse(o.text).ok /\ Truthy(JsonParse(o.text).value.detail)
                     THEN JsonParse(o.text).value.detail
                     ELSE IF o.text # "" THEN o.text
                     ELSE "Encryption failed.")
        /\ \A t \in InFlight("decrypt"), o \in DecryptOutcomes :
             (DecryptComplete(t, o) /\ ~o.rejected /\ ~ResOk(o.status)) =>
                processStatus'.decrypt.message =
                    (IF JsonParse(o.text).ok /\ Truthy(JsonParse(o.text).value.detail)
                     THEN JsonParse(o.text).value.detail
                     ELSE IF o.text # "" THEN o.text
                     ELSE "Decryption failed.") ]_vars

\* C5 (as claimed): while session.status is not success the encrypt operation
\* cannot be started and no encrypt request is sent.
C5_NoEncryptWithoutSession ==
    [][ /\ (\E f \in Files \cup {NullFile} : HandleEncrypt(f)) =>
              processStatus.session.status = "success"
        /\ \A t \in Suspended :
              (Issue(t) /\ t.kind = "encrypt") =>
                 processStatus.session.status = "success" ]_vars

\* C6 (as claimed): while encrypt.status is not success neither the preview
\* nor the download can be started and no decrypt request is sent.
C6_NoDecryptWithoutEncrypt ==
    [][ /\ (\E c \in ComponentInputs : HandleDecryptPreview(c)) =>
              processStatus.encrypt.status = "success"
        /\ (\E c \in ComponentInputs : HandleDownload(c)) =>
              processStatus.encrypt.status = "success"
        /\ \A t \in Suspended :
              (Issue(t) /\ t.kind = "decrypt") =>
                 processStatus.encrypt.status = "success" ]_vars

\* C7: right after handleGenerateKey's start step, from any state, encrypt
\* and decrypt are idle and the preview is empty; session is loading, or
\* error when the two identities are equal.
C7_SessionStartResetsAll ==
    [][ HandleGenerateKey =>
          /\ processStatus'.encrypt.status = "idle"
          /\ processStatus'.decrypt.status = "idle"
          /\ decryptedPreview' = ""
          /\ processStatus'.session.status =
                 (IF currentUser = peerUser THEN "error" ELSE "loading") ]_vars

\* C7 witness: a session was started after an encryption had succeeded (its
\* components are still held) and the encrypt pipeline is back at idle
C7_Witness ==
    /\ processStatus.session.status = "loading"
    /\ processStatus.encrypt.status = "idle"
    /\ processStatus.decrypt.status = "idle"
    /\ cryptoComponents.nonce = "n1"
    /\ \E t \in Suspended : t.kind = "session" /\ t.pc = "sleep"

\* C8 (as claimed): handleEncrypt's start step sets decrypt to idle and
\* encrypt to loading, keeps a successful session successful and changes no
\* other part of the session's status record.
C8_EncryptStartKeepsSessionRecord ==
    [][ (\E f \in Files \cup {NullFile} : HandleEncrypt(f)) =>
          /\ processStatus'.decrypt.status = "idle"
          /\ processStatus'.encrypt.status = "loading"
          /\ (processStatus.session.status = "success" =>
                processStatus'.session.status = "success")
          /\ processStatus'.session.type = processStatus.session.type
          /\ processStatus'.session.message = processStatus.session.message ]_vars

\* C8 (amended): handleEncrypt's start step sets decrypt to idle and encrypt
\* to loading and keeps a successful session successful (status and type),
\* while the session's message is replaced by "Session active".
C8_EncryptStartKeepsSessionSuccess ==
    [][ (\E f \in Files \cup {NullFile} : HandleEncrypt(f)) =>
          /\ processStatus'.decrypt.status = "idle"
          /\ processStatus'.encrypt.status = "loading"
          /\ (processStatus.session.status = "success" =>
                /\ processStatus'.session.status = "success"
                /\ processStatus'.session.type = "success"
                /\ processStatus'.session.message = "Session active") ]_vars

\* C8 witness: an encryption has been started on a successful session
C8_Witness ==
    /\ processStatus.encrypt.status = "loading"
    /\ processStatus.session.status = "success"
    /\ processStatus.session.message = "Session active"
    /\ \E t \in Suspended : t.kind = "encrypt" /\ t.pc = "sleep"

\* C9 (as claimed): handleDecryptPreview's start step leaves the status of
\* session and of encrypt as they were, whatever they were, and sets decrypt
\* to loading.
C9_DecryptStartResetsOnlyDecrypt ==
    [][ (\E c \in ComponentInputs : HandleDecryptPreview(c)) =>
          /\ processStatus'.session.status = processStatus.session.status
          /\ processStatus'.encrypt.status = processStatus.encrypt.status
          /\ processStatus'.decrypt.status = "loading" ]_vars

\* C10: encrypt and decrypt are never eavesdropper, and session becomes
\* eavesdropper only in a step that handles a 403 answer to a session request.
C10_EavesdropperOnlyFromSession403 ==
    /\ [](/\ processStatus.encrypt.status # "eavesdropper"
          /\ processStatus.decrypt.status # "eavesdropper")
    /\ [][ (/\ processStatus'.session.status = "eavesdropper"
            /\ processStatus.session.status # "eavesdropper") =>
              \E t \in InFlight("session"), o \in SessionOutcomes :
                 SessionComplete(t, o) /\ ~o.rejected /\ o.status = 403 ]_vars

\* C10 witness: the session is eavesdropper and an encrypt request answered
\* afterwards has failed without becoming eavesdropper
C10_Witness ==
    /\ processStatus.session.status = "eavesdropper"
    /\ processStatus.encrypt.status = "error"

\* C11 (as claimed): no start, request or completion of an encrypt or
\* decrypt-preview operation changes session.status away from eavesdropper.
C11_EavesdropperIsTerminal ==
    [][ (/\ processStatus.session.status = "eavesdropper"
         /\ \/ \E f \in Files \cup {NullFile} : HandleEncrypt(f)
            \/ \E c \in ComponentInputs : HandleDecryptPreview(c)
            \/ \E t \in Suspended : Issue(t) /\ t.kind # "session"
            \/ \E t \in InFlight("encrypt"), o \in EncryptOutcomes :
                  EncryptComplete(t, o)
            \/ \E t \in InFlight("decrypt"), o \in DecryptOutcomes :
                  DecryptComplete(t, o)) =>
           processStatus'.session.status = "eavesdropper" ]_vars

\* C12: an invocation of handleGenerateKey, handleEncrypt or
\* handleDecryptPreview becomes suspended at its sleep only in a step that
\* leaves its own pipeline loading, and a request comes in flight only from an
\* invocation that was suspended at its sleep: loading is written in the
\* start step, before the request is sent.
C12_LoadingBeforeRequest ==
    [][ \A t \in BagToSet(tasks') :
          CopiesIn(t, tasks') > CopiesIn(t, tasks) =>
            IF t.pc = "sleep"
            THEN processStatus'[t.kind].status = "loading"
            ELSE \E s \in Suspended :
                    /\ s.pc = "sleep"
                    /\ s.kind = t.kind
                    /\ CopiesIn(s, tasks') < CopiesIn(s, tasks) ]_vars

\* C12 witness: the three handlers have each been started and have sent
\* their request at some time: here a decrypt-preview request is in flight
C12_Witness ==
    /\ processStatus.decrypt.status = "loading"
    /\ Awaiting("decrypt") \in Suspended

\* C13 (as claimed): in every reachable state each pipeline has at most one
\* invocation that is started and not yet completed.
C13_OneOperationPerPipeline ==
    \A kind \in {"session", "encrypt", "decrypt"} :
        /\ Cardinality(InFlight(kind)) <= 1
        /\ \A t \in InFlight(kind) : CopiesIn(t, tasks) <= 1

\* C14: there is no cancellation. A request in flight can always be answered,
\* whatever else has been started since, and an invocation ends only in a
\* step that writes its result: its pipeline's status becomes success, error
\* or eavesdropper and isLoading becomes false.
C14_StaleResponseStillWrites ==
    /\ [](\A t \in Suspended :
            t.pc = "fetch" =>
              ENABLED (\/ \E o \in SessionOutcomes : SessionComplete(t, o)
                       \/ \E o \in EncryptOutcomes : EncryptComplete(t, o)
                       \/ \E o \in DecryptOutcomes : DecryptComplete(t, o)))
    /\ [][ \A t \in Suspended :
             CopiesIn(t, tasks') < CopiesIn(t, tasks) =>
               \/ t.pc = "sleep" /\ Awaiting(t.kind) \in BagToSet(tasks')
               \/ /\ t.pc = "fetch"
                  /\ isLoading' = FALSE
                  /\ processStatus'[t.kind].status \in
                        {"success", "error", "eavesdropper"} ]_vars

\* C14 witness: an encryption started before the session was restarted has
\* been answered afterwards: it has written encrypt success over the idle the
\* restart had left and isLoading false over the true the restart had set,
\* while the restarted session is still in flight
C14_Witness ==
    /\ processStatus.session.status = "loading"
    /\ InFlight("session") # {}
    /\ processStatus.encrypt.status = "success"
    /\ cryptoComponents.nonce = "n1"
    /\ ~isLoading

\* C15 (as claimed): normalizing the exported root again returns it unchanged,
\* for every configured root.
C15_NormalizeIdempotent ==
    [][ Renormalize => API_URL' = API_URL ]_vars

\* C16 (as claimed): the headline status follows the priority eavesdropper
\* (session), error, loading, default success, and for every combination of
\* statuses the headline message is the message of the record the headline
\* status was taken from.
C16_HeadlineSamePipeline ==
    LET top == getConnectionStatus(processStatus)
        any(st) == \E p \in Pipelines : processStatus[p].status = st
    IN  /\ top.status =
              (IF processStatus.session.status = "eavesdropper" THEN "eavesdropper"
               ELSE IF any("error") THEN "error"
               ELSE IF any("loading") THEN "loading"
               ELSE "success")
        /\ top.message = getTopMessage(processStatus)

\* C16 (amended): the headline status follows the priority eavesdropper
\* (session), error, loading, default success. In the first three cases both
\* functions take the same pipeline, the first in the order decrypt, encrypt,
\* session that has the status. In the default case getConnectionStatus takes
\* no pipeline (success, "Secure Tunnel Active") while getTopMessage takes the
\* first successful pipeline in that order, or session when none is.
C16_HeadlinePriority ==
    LET top == getConnectionStatus(processStatus)
        msg == getTopMessage(processStatus)
        any(st) == \E p \in Pipelines : processStatus[p].status = st
        first(st) == IF processStatus.decrypt.status = st THEN "decrypt"
                     ELSE IF processStatus.encrypt.status = st THEN "encrypt"
                     ELSE "session"
    IN  IF processStatus.session.status = "eavesdropper"
        THEN /\ top.status = "eavesdropper"
             /\ top.message = processStatus.session.message
             /\ msg = processStatus.session.message
        ELSE IF any("error")
        THEN /\ top.status = "error"
             /\ top.message = processStatus[first("error")].message
             /\ msg = processStatus[first("error")].message
        ELSE IF any("loading")
        THEN /\ top.status = "loading"
             /\ top.message = processStatus[first("loading")].message
             /\ msg = processStatus[first("loading")].message
        ELSE /\ top.status = "success"
             /\ top.message = "Secure Tunnel Active"
             /\ msg = processStatus[first("success")].message

\* C16 witness: two pipelines are in error and the third is loading, so that
\* both the priority of error over loading and the order among the errors
\* decide the headline
C16_Witness ==
    /\ processStatus.session = Status("error", "session is error")
    /\ processStatus.decrypt = Status("error", "decrypt is error")
    /\ processStatus.encrypt.status = "loading"

\* C17 (as claimed): whatever postFormJson throws to the handler that called
\* it, for a non-2xx answer with or without a JSON body and for a transport
\* failure alike, carries both a status and a message.
C17_ThrownShapeNormalized ==
    [][ /\ \A t \in InFlight("session"), o \in SessionOutcomes :
             (SessionComplete(t, o) /\ PostFormJson(o).threw) =>
                /\ PostFormJson(o).err.hasStatus
                /\ PostFormJson(o).err.message # UNDEFINED
        /\ \A t \in InFlight("encrypt"), o \in EncryptOutcomes :
             (EncryptComplete(t, o) /\ PostFormJson(o).threw) =>
                /\ PostFormJson(o).err.hasStatus
                /\ PostFormJson(o).err.message # UNDEFINED
        /\ \A t \in InFlight("decrypt"), o \in DecryptOutcomes :
             (DecryptComplete(t, o) /\ PostFormJson(o).threw) =>
                /\ PostFormJson(o).err.hasStatus
                /\ PostFormJson(o).err.message # UNDEFINED ]_vars

\* C18 (as claimed): when the request of an operation fails (no response, a
\* non-2xx answer, or an answer whose body does not parse), the handler
\* completes by writing error (eavesdropper for a session answered 403) with a
\* non-empty message to its own pipeline and false to isLoading.
C18_EveryFailureIsAnError ==
    [][ /\ \A t \in InFlight("session"), o \in SessionOutcomes :
             (/\ SessionComplete(t, o)
              /\ (o.rejected \/ ~ResOk(o.status)
                    \/ (o.text # "" /\ ~JsonParse(o.text).ok))) =>
                /\ processStatus'.session.status =
                      (IF ~o.rejected /\ o.status = 403
                       THEN "eavesdropper" ELSE "error")
                /\ processStatus'.session.message \notin {"", UNDEFINED}
                /\ isLoading' = FALSE
        /\ \A t \in InFlight("encrypt"), o \in EncryptOutcomes :
             (/\ EncryptComplete(t, o)
              /\ (o.rejected \/ ~ResOk(o.status)
                    \/ (o.text # "" /\ ~JsonParse(o.text).ok))) =>
                /\ processStatus'.encrypt.status = "error"
                /\ processStatus'.encrypt.message \notin {"", UNDEFINED}
                /\ isLoading' = FALSE
        /\ \A t \in InFlight("decrypt"), o \in DecryptOutcomes :
             (/\ DecryptComplete(t, o)
              /\ (o.rejected \/ ~ResOk(o.status)
                    \/ (o.text # "" /\ ~JsonParse(o.text).ok))) =>
                /\ processStatus'.decrypt.status = "error"
                /\ processStatus'.decrypt.message \notin {"", UNDEFINED}
                /\ isLoading' = FALSE ]_vars

\* C18 (amended): when the request of an operation fails with no response or
\* with a non-2xx answer, whatever its body, the handler completes by writing
\* error (eavesdropper for a session answered 403) with a non-empty message to
\* its own pipeline and false to isLoading, and the invocation ends. A 2xx
\* answer whose body does not parse is not a failure: the handler writes
\* success.
C18_RequestFailureIsAnError ==
    [][ /\ \A t \in InFlight("session"), o \in SessionOutcomes :
             SessionComplete(t, o) =>
                /\ isLoading' = FALSE
                /\ tasks' = Remove(t)
                /\ IF o.rejected \/ ~ResOk(o.status)
                   THEN /\ processStatus'.session.status =
                              (IF ~o.rejected /\ o.status = 403
                               THEN "eavesdropper" ELSE "error")
                        /\ processStatus'.session.message \notin {"", UNDEFINED}
                   ELSE processStatus'.session.status = "success"
        /\ \A t \in InFlight("encrypt"), o \in EncryptOutcomes :
             EncryptComplete(t, o) =>
                /\ isLoading' = FALSE
                /\ tasks' = Remove(t)
                /\ IF o.rejected \/ ~ResOk(o.status)
                   THEN /\ processStatus'.encrypt.status = "error"
                        /\ processStatus'.encrypt.message \notin {"", UNDEFINED}
                   ELSE processStatus'.encrypt.status = "success"
        /\ \A t \in InFlight("decrypt"), o \in DecryptOutcomes :
             DecryptComplete(t, o) =>
                /\ isLoading' = FALSE
                /\ tasks' = Remove(t)
                /\ IF o.rejected \/ ~ResOk(o.status)
                   THEN /\ processStatus'.decrypt.status = "error"
                        /\ processStatus'.decrypt.message \notin {"", UNDEFINED}
                   ELSE processStatus'.decrypt.status = "success" ]_vars

\* C18 witness: a decrypt-preview request got no response and the handler has
\* turned the TypeError of fetch into the decrypt pipeline's error
C18_Witness ==
    /\ processStatus.decrypt = Status("error", "Failed to fetch")
    /\ decryptedPreview = "Error: Failed to fetch"
    /\ ~isLoading
    /\ tasks = EmptyBag

\* C19: the request a decrypt-preview invocation will send, and the request a
\* download sends, carry the nonce, tag and ciphertext the handler was given,
\* unchanged; and when a preview request is answered 2xx with
\* {"plaintext":"hello"}, decryptedPreview is "hello" and decrypt is success.
C19_TriplePassedThrough ==
    [][ /\ \A c \in ComponentInputs :
             HandleDecryptPreview(c) =>
                \E t \in BagToSet(tasks') :
                   /\ CopiesIn(t, tasks') > CopiesIn(t, tasks)
                   /\ RequestOf(t).nonce = c.nonce
                   /\ RequestOf(t).tag = c.tag
                   /\ RequestOf(t).ciphertext = c.ciphertext
        /\ \A c \in ComponentInputs :
             HandleDownload(c) =>
                /\ download'.nonce = c.nonce
                /\ download'.tag = c.tag
                /\ download'.ciphertext = c.ciphertext
        /\ \A t \in InFlight("decrypt"), o \in DecryptOutcomes :
             (/\ DecryptComplete(t, o)
              /\ ~o.rejected /\ ResOk(o.status) /\ o.text = PlaintextBody) =>
                /\ decryptedPreview' = "hello"
                /\ processStatus'.decrypt.status = "success" ]_vars

\* C19 witness: a preview of the triple n1, t1, c1 has been answered with the
\* plaintext, which is shown
C19_Witness ==
    /\ decryptedPreview = "hello"
    /\ processStatus.decrypt = Status("success", "Decryption preview successful.")
    /\ ~isLoading

\* C20 (as claimed): a decrypt-preview or download request is sent only with
\* nonce, tag and ciphertext all non-empty.
C20_TripleIsAtomic ==
    [][ /\ \A t \in Suspended :
             (Issue(t) /\ t.kind = "decrypt") =>
                /\ RequestOf(t).nonce # ""
                /\ RequestOf(t).tag # ""
                /\ RequestOf(t).ciphertext # ""
        /\ \A c \in ComponentInputs :
             HandleDownload(c) =>
                /\ download'.nonce # ""
                /\ download'.tag # ""
                /\ download'.ciphertext # "" ]_vars

\* C21 (as claimed): in every reachable state encrypt is success only if
\* session is success, and decrypt is success only if encrypt is success.
C21_SuccessImpliesEarlierSuccess ==
    /\ processStatus.encrypt.status = "success" =>
          processStatus.session.status = "success"
    /\ processStatus.decrypt.status = "success" =>
          processStatus.encrypt.status = "success"

\* C22 (as claimed): isLoading is true in every reachable state in which an
\* invocation of a handler is in flight, and no completion sets it to false
\* while another invocation is still in flight.
C22_LoadingWhileInFlight ==
    /\ [](tasks # EmptyBag => isLoading)
    /\ [][ (tasks' # EmptyBag /\ isLoading) => isLoading' ]_vars

\* C23: when every timer fires and every request is answered or fails, a
\* behaviour in which the user eventually starts no more operations reaches a
\* state, and stays in it, where no invocation is in flight, isLoading is
\* false and no pipeline is loading.
C23_EventuallyQuiescent ==
    (<>[][ ~(\/ HandleGenerateKey
             \/ \E f \in Files \cup {NullFile} : HandleEncrypt(f)
             \/ \E c \in ComponentInputs : HandleDecryptPreview(c)) ]_vars)
    => <>[](/\ tasks = EmptyBag
            /\ ~isLoading
            /\ \A p \in Pipelines : processStatus[p].status # "loading")

\* C23 witness: the three operations have run and the system is at rest with
\* a failed preview
C23_Witness ==
    /\ tasks = EmptyBag
    /\ ~isLoading
    /\ processStatus.session.status = "success"
    /\ processStatus.encrypt.status = "success"
    /\ processStatus.decrypt.status = "error"

\* C24 (as claimed, the part that needs no record of the session's pair):
\* every encrypt, decrypt-preview and download request carries a user_id
\* different from its peer_id, also after the selectors were changed under a
\* successful session.
C24_RequestIdentityDistinct ==
    [][ /\ \A t \in Suspended :
             (Issue(t) /\ t.kind \in {"encrypt", "decrypt"}) =>
                RequestOf(t).user_id # RequestOf(t).peer_id
        /\ \A c \in ComponentInputs :
             HandleDownload(c) => download'.user_id # download'.peer_id ]_vars

\* C25 (as claimed): in every reachable state a nonce is displayed
\* (cryptoComponents.nonce is truthy) only while encrypt is success.
C25_ComponentsOnlyWhileSuccess ==
    Truthy(cryptoComponents.nonce) => processStatus.encrypt.status = "success"

\* C26 (as claimed): the branch ConnectionVisual takes for the value
\* getConnectionStatus returned matches that value's status: ERROR for error,
\* the compromised channel for eavesdropper, one of the two loading branches
\* for loading, the secure tunnel for success.
C26_VisualMatchesHeadline ==
    LET top == getConnectionStatus(processStatus)
        branch == ConnectionVisual(top)
    IN  /\ top.status = "error" => branch = "ERROR"
        /\ top.status = "eavesdropper" => branch = "COMPROMISED CHANNEL"
        /\ top.status = "loading" => branch \in {"BUILDING TUNNEL...", "DATA FLOW"}
        /\ top.status = "success" => branch = "SECURE TUNNEL"

\* C27 (as claimed): in every reachable state where encrypt is success,
\* cryptoComponents holds a non-empty nonce, tag and ciphertext.
C27_SuccessHasCompleteTriple ==
    processStatus.encrypt.status = "success" =>
        /\ Truthy(cryptoComponents.nonce)
        /\ Truthy(cryptoComponents.tag)
        /\ Truthy(cryptoComponents.ciphertext)

====
